---- MODULE Spec2Model ----
(***************************************************************************)
(* Model of the open-addressing hash table of src/library.c (HashADT):     *)
(* ht_create, ht_put (with resize), ht_get, ht_has, ht_keys, ht_values and *)
(* ht_destroy, driven by caller-supplied hash / equals / delete functions, *)
(* of its dynamic array (initArray, insertArrayElement, getArrayElement)   *)
(* and of its queue (initQueue, enqueue, dequeue, freeQueue).              *)
(***************************************************************************)
EXTENDS Integers, Sequences, FiniteSets, TLC

\* ------------------------------------------------------------------ bounds
\* Number of pairwise non-equal keys the callers use.
MaxKeys == 13
\* Keys 1..FreeKeys are passed under either of their references and put with
\* any value; the other keys are passed under their first reference and put
\* with their own value, PlainValue.
FreeKeys == 1

\* Largest size an Array is grown to, and largest capacity it is initialised
\* with.
MaxArraySize == 4
MaxInitCapacity == 2

\* Number of Node objects malloc hands out, and largest capacity of a Queue.
MaxNodes == 3
MaxCapacity == 2

\* -------------------------------------------------------- program constants
NULL == 0
INITIAL_CAPACITY == 16
RESIZE_FACTOR == 2
\* LOAD_THRESHOLD is 0.75, kept as the exact ratio 3/4.
LOAD_THRESHOLD_NUM == 3
LOAD_THRESHOLD_DEN == 4

\* ------------------------------------------------------------ caller's data
\* A key is a reference (a pointer).  Key k has the two references k and
\* k + MaxKeys: equals() holds between different references to the same key.
KeyRefs == 1..(2 * MaxKeys)
KeyOf(r) == ((r - 1) % MaxKeys) + 1
Keys == 1..MaxKeys
\* Value references; NULL is a legal value reference.
Values == {NULL, 1, 2, 3}
PlainValue(k) == 1 + ((k + 1) % 2)
\* The caller's hash functions (the table only ever calls t->hash).
\*   "stride": every key has home slot 0 at capacity 16, 0 or 16 at 32.
\*   "mixed" : home slots 15, 15, 0, 3 at capacity 16 (clusters that wrap
\*             around the end of the array), split over 15/31, 0, 19 at 32.
HashSels == {"stride", "mixed"}
HashOf(sel, k) ==
    CASE sel = "stride" -> 16 * k
      [] OTHER          -> 16 * k + (CASE k % 4 = 2 -> 0 [] k % 4 = 3 -> 3 [] OTHER -> 15)
\* Values a size_t of an object obtained from malloc may hold before it is
\* written (ht_create never writes t->rehashes).  Two stand for all of them;
\* the counts stay far below the width of size_t, so no wrap-around is kept.
Indeterminate == {0, 5}

\* A call that never returns (a probe loop that finds no exit).
Diverges == -1
\* A call that ends the process with exit(1) after printing a diagnostic.
Exits == -2
\* A call that reads or writes through a null or wild pointer: the access is
\* to an unmapped address and the process is ended by the trap.
Traps == -3
\* An indeterminate pointer value that is neither null nor the address of
\* an object of the program: the content of memory from malloc or realloc
\* that was never written, or a value a function returned without a return
\* statement.
Wild == -4

VARIABLES
    t,          \* the struct hashtab_s behind the handle
    phase,      \* "live" | "destroyed" | "hung" | "exited" | "crashed" |
                \* "declared" | "freed"
    last,       \* the last call and what it returned
    deleted,    \* the arguments of the calls of t->delete, in order
    stored,     \* history: per key, the first reference and the last value put
    resizes,    \* history: number of calls of resize
    arr,        \* the Array struct behind the caller's Array *
    queue,      \* the Queue struct behind the caller's Queue *
    heap,       \* the Node objects obtained from malloc, by address
    trace       \* history of the queue: the queue as first handed to the
                \* library, the data enqueued and the data dequeued

vars == <<t, phase, last, deleted, stored, resizes, arr, queue, heap, trace>>

\* The objects of one abstract data type are not touched by the calls of
\* another; an object that does not exist is None.
None == "none"
tableVars == <<t, deleted, stored, resizes>>
arrayVars == <<arr>>
queueVars == <<queue, heap, trace>>

\* ------------------------------------------------------------------ types
NoPair == [key |-> NULL, value |-> NULL]
EmptyBucket == [isOccupied |-> FALSE, pair |-> NoPair]
Absent == [present |-> FALSE, key |-> NULL, value |-> NULL]

\* t->hash and t->equals, as supplied by the caller
hash(tt, key) == HashOf(tt.hash, KeyOf(key))
equals(key1, key2) == KeyOf(key1) = KeyOf(key2)

\* Variant: the test is > instead of >=.
loadFactorAbove(tt, num, den) == tt.size * den > tt.capacity * num
\* Variant: the (double) cast is missing, so size / capacity is an integer division.
loadFactorIntDiv(tt, num, den) == (tt.size \div tt.capacity) * den >= num

\* (double)size / capacity >= num/den; exact, capacity being a power of two.
loadFactorAtLeast(tt, num, den) == tt.size * den >= tt.capacity * num

\* Variant: the probe steps downwards (index - 1) instead of upwards.
RECURSIVE resizeProbe_downwards(_, _, _, _)
resizeProbe_downwards(new_table, newCapacity, index, n) ==
    IF n >= newCapacity THEN Diverges
    ELSE IF new_table[index].isOccupied
         THEN resizeProbe_downwards(new_table, newCapacity,
                                    (index + newCapacity - 1) % newCapacity, n + 1)
         ELSE index

\* The probe of resize: first free slot of new_table from index on.
RECURSIVE resizeProbe(_, _, _, _)
resizeProbe(new_table, newCapacity, index, n) ==
    IF n >= newCapacity THEN Diverges
    ELSE IF new_table[index].isOccupied
         THEN resizeProbe(new_table, newCapacity, (index + 1) % newCapacity, n + 1)
         ELSE index

\* Variant: the new index is taken modulo the old capacity.
RECURSIVE resizeLoop_oldIndex(_, _, _, _)
resizeLoop_oldIndex(tt, new_table, newCapacity, i) ==
    IF i >= tt.capacity THEN new_table
    ELSE IF tt.table[i].isOccupied
         THEN LET pair == tt.table[i].pair
                  index == resizeProbe(new_table, newCapacity,
                                       hash(tt, pair.key) % tt.capacity, 0)
              IN resizeLoop_oldIndex(tt,
                        [new_table EXCEPT ![index] = [isOccupied |-> TRUE, pair |-> pair]],
                        newCapacity, i + 1)
         ELSE resizeLoop_oldIndex(tt, new_table, newCapacity, i + 1)

\* Variant: the loop stops one slot early (i < capacity - 1).
RECURSIVE resizeLoop_skipLast(_, _, _, _)
resizeLoop_skipLast(tt, new_table, newCapacity, i) ==
    IF i >= tt.capacity - 1 THEN new_table
    ELSE IF tt.table[i].isOccupied
         THEN LET pair == tt.table[i].pair
                  index == resizeProbe(new_table, newCapacity,
                                       hash(tt, pair.key) % newCapacity, 0)
              IN resizeLoop_skipLast(tt,
                        [new_table EXCEPT ![index] = [isOccupied |-> TRUE, pair |-> pair]],
                        newCapacity, i + 1)
         ELSE resizeLoop_skipLast(tt, new_table, newCapacity, i + 1)

\* The for loop of resize, from slot i of the old table on.
RECURSIVE resizeLoop(_, _, _, _)
resizeLoop(tt, new_table, newCapacity, i) ==
    IF i >= tt.capacity THEN new_table
    ELSE IF tt.table[i].isOccupied
         THEN LET pair == tt.table[i].pair
                  index == resizeProbe(new_table, newCapacity,
                                       hash(tt, pair.key) % newCapacity, 0)
              IN IF index = Diverges THEN new_table
                 ELSE resizeLoop(tt,
                        [new_table EXCEPT ![index] = [isOccupied |-> TRUE, pair |-> pair]],
                        newCapacity, i + 1)
         ELSE resizeLoop(tt, new_table, newCapacity, i + 1)

\* Variant: the capacity is divided by RESIZE_FACTOR instead of multiplied.
resize_divides(tt) ==
    LET newCapacity == tt.capacity \div RESIZE_FACTOR
        new_table == resizeLoop(tt, [i \in 0..(newCapacity - 1) |-> EmptyBucket],
                                newCapacity, 0)
    IN [tt EXCEPT !.rehashes = tt.rehashes + 1,
                  !.table = new_table,
                  !.capacity = newCapacity]

resize(tt) ==
    LET newCapacity == tt.capacity * RESIZE_FACTOR
        new_table == resizeLoop(tt, [i \in 0..(newCapacity - 1) |-> EmptyBucket],
                                newCapacity, 0)
    IN [tt EXCEPT !.rehashes = tt.rehashes + 1,
                  !.table = new_table,
                  !.capacity = newCapacity]

createPair(key, value) == [key |-> key, value |-> value]

ht_create(hashSel, delete, garbage) ==
    [capacity |-> INITIAL_CAPACITY,
     size     |-> 0,
     rehashes |-> garbage,
     table    |-> [i \in 0..(INITIAL_CAPACITY - 1) |-> EmptyBucket],
     hash     |-> hashSel,
     delete   |-> delete]

\* The while loop shared by ht_get and ht_put: the slot holding a key equal
\* to key, or the first empty slot met, or Diverges.
RECURSIVE probe(_, _, _, _)
probe(tt, key, index, n) ==
    IF n >= tt.capacity THEN Diverges
    ELSE IF tt.table[index].isOccupied
         THEN IF equals(key, tt.table[index].pair.key)
              THEN index
              ELSE probe(tt, key, (index + 1) % tt.capacity, n + 1)
         ELSE index

ht_get(tt, key) ==
    LET index == probe(tt, key, hash(tt, key) % tt.capacity, 0)
    IN IF index = Diverges THEN Diverges
       ELSE IF tt.table[index].isOccupied
            THEN tt.table[index].pair.value
            ELSE NULL

ht_has(tt, key) == ht_get(tt, key) # NULL

\* Variant: an update returns the new value instead of the old one.
ht_put_returnsNew(tt, key, value) ==
    LET t1 == IF loadFactorAtLeast(tt, LOAD_THRESHOLD_NUM, LOAD_THRESHOLD_DEN)
              THEN resize(tt) ELSE tt
        index == probe(t1, key, hash(t1, key) % t1.capacity, 0)
    IN IF index = Diverges THEN [t |-> t1, ret |-> Diverges]
       ELSE IF t1.table[index].isOccupied
            THEN [t   |-> [t1 EXCEPT !.table[index].pair.value = value],
                  ret |-> value]
            ELSE [t   |-> [t1 EXCEPT !.table[index] =
                                 [isOccupied |-> TRUE, pair |-> createPair(key, value)],
                               !.size = t1.size + 1],
                  ret |-> NULL]

\* Variant: an update stores the key reference of the call with the value.
ht_put_replacesKey(tt, key, value) ==
    LET t1 == IF loadFactorAtLeast(tt, LOAD_THRESHOLD_NUM, LOAD_THRESHOLD_DEN)
              THEN resize(tt) ELSE tt
        index == probe(t1, key, hash(t1, key) % t1.capacity, 0)
    IN IF index = Diverges THEN [t |-> t1, ret |-> Diverges]
       ELSE IF t1.table[index].isOccupied
            THEN [t   |-> [t1 EXCEPT !.table[index].pair = createPair(key, value)],
                  ret |-> t1.table[index].pair.value]
            ELSE [t   |-> [t1 EXCEPT !.table[index] =
                                 [isOccupied |-> TRUE, pair |-> createPair(key, value)],
                               !.size = t1.size + 1],
                  ret |-> NULL]

\* Variant: size is incremented on an update too.
ht_put_countsUpdate(tt, key, value) ==
    LET t1 == IF loadFactorAtLeast(tt, LOAD_THRESHOLD_NUM, LOAD_THRESHOLD_DEN)
              THEN resize(tt) ELSE tt
        index == probe(t1, key, hash(t1, key) % t1.capacity, 0)
    IN IF index = Diverges THEN [t |-> t1, ret |-> Diverges]
       ELSE IF t1.table[index].isOccupied
            THEN [t   |-> [t1 EXCEPT !.table[index].pair.value = value,
                               !.size = t1.size + 1],
                  ret |-> t1.table[index].pair.value]
            ELSE [t   |-> [t1 EXCEPT !.table[index] =
                                 [isOccupied |-> TRUE, pair |-> createPair(key, value)],
                               !.size = t1.size + 1],
                  ret |-> NULL]

\* ht_put: the table after the call and the value returned.  The first
\* while loop ends on an empty slot, so the second one ("get empty slot")
\* never iterates; a null key ends the process before anything is changed.
ht_put(tt, key, value) ==
    LET t1 == IF loadFactorAtLeast(tt, LOAD_THRESHOLD_NUM, LOAD_THRESHOLD_DEN)
              THEN resize(tt) ELSE tt
        index == probe(t1, key, hash(t1, key) % t1.capacity, 0)
    IN IF index = Diverges THEN [t |-> t1, ret |-> Diverges]
       ELSE IF t1.table[index].isOccupied
            THEN [t   |-> [t1 EXCEPT !.table[index].pair.value = value],
                  ret |-> t1.table[index].pair.value]
            ELSE [t   |-> [t1 EXCEPT !.table[index] =
                                 [isOccupied |-> TRUE, pair |-> createPair(key, value)],
                               !.size = t1.size + 1],
                  ret |-> NULL]

\* Variant: the loop runs over size slots instead of capacity slots.
RECURSIVE scan_bySize(_, _, _)
scan_bySize(tt, i, field) ==
    IF i >= tt.size THEN <<>>
    ELSE IF tt.table[i].isOccupied
         THEN <<tt.table[i].pair[field]>> \o scan_bySize(tt, i + 1, field)
         ELSE scan_bySize(tt, i + 1, field)

\* The elements written by the loops of ht_keys / ht_values, from slot i on.
RECURSIVE scan(_, _, _)
scan(tt, i, field) ==
    IF i >= tt.capacity THEN <<>>
    ELSE IF tt.table[i].isOccupied
         THEN <<tt.table[i].pair[field]>> \o scan(tt, i + 1, field)
         ELSE scan(tt, i + 1, field)

ht_keys(tt) == scan(tt, 0, "key")
ht_values(tt) == scan(tt, 0, "value")

\* The lines the second loop of ht_dump prints, from slot i on: slot, key and
\* value of an occupied slot whose key and value are both non-null (through
\* t->print), the slot alone ("null") for an empty slot.
RECURSIVE dumpLoop(_, _)
dumpLoop(tt, i) ==
    IF i >= tt.capacity THEN <<>>
    ELSE (IF tt.table[i].isOccupied
          THEN IF tt.table[i].pair.key # NULL /\ tt.table[i].pair.value # NULL
               THEN << <<i, tt.table[i].pair.key, tt.table[i].pair.value>> >>
               ELSE <<>>
          ELSE << <<i>> >>)
         \o dumpLoop(tt, i + 1)

\* What ht_dump prints: Size, Capacity and, with contents, Collisions,
\* Rehashes and the slots.
ht_dump(tt, contents) ==
    LET collisions == Cardinality({i \in 0..(tt.capacity - 1) :
                          /\ tt.table[i].isOccupied
                          /\ i # hash(tt, tt.table[i].pair.key) % tt.capacity})
    IN IF contents
       THEN <<tt.size, tt.capacity, collisions, tt.rehashes>> \o dumpLoop(tt, 0)
       ELSE <<tt.size, tt.capacity>>

\* Variant: the loop runs over the initial capacity instead of the current one.
RECURSIVE destroyLoop_initialCapacity(_, _)
destroyLoop_initialCapacity(tt, i) ==
    IF i >= INITIAL_CAPACITY THEN <<>>
    ELSE IF tt.table[i].isOccupied /\ tt.delete
         THEN <<tt.table[i].pair>> \o destroyLoop_initialCapacity(tt, i + 1)
         ELSE destroyLoop_initialCapacity(tt, i + 1)

\* The calls of t->delete made by ht_destroy, from slot i on.
RECURSIVE destroyLoop(_, _)
destroyLoop(tt, i) ==
    IF i >= tt.capacity THEN <<>>
    ELSE IF tt.table[i].isOccupied /\ tt.delete
         THEN <<tt.table[i].pair>> \o destroyLoop(tt, i + 1)
         ELSE destroyLoop(tt, i + 1)

ht_destroy(tt) == destroyLoop(tt, 0)

\* ---------------------------------------------------------------- actions
\* What the caller sees of a call: its name, the value it returned and, for
\* an ht_put that called resize, the table before and after that resize.
Returned(op, ret) == [op |-> op, ret |-> ret, grew |-> <<>>]


Init ==
    /\ \E h \in HashSels, d \in BOOLEAN, g \in Indeterminate : t = ht_create(h, d, g)
    /\ phase = "live"
    /\ last = Returned("ht_create", NULL)
    /\ deleted = <<>>
    /\ stored = [k \in Keys |-> Absent]
    /\ resizes = 0
    /\ arr = None
    /\ queue = None /\ heap = None /\ trace = None

\* Keys are named in the order of their first insertion; a call names a key
\* already inserted or the next one.
InOrder(key) == IF KeyOf(key) = 1 THEN TRUE ELSE stored[KeyOf(key) - 1].present
\* The references the callers pass.
InUse(key) == IF KeyOf(key) <= FreeKeys THEN TRUE ELSE key = KeyOf(key)

\* stored after a put of value under key.
Record(key, value) ==
    [stored EXCEPT ![KeyOf(key)] =
        [present |-> TRUE,
         key     |-> IF @.present THEN @.key ELSE key,
         value   |-> value]]

Put(key, value) ==
    /\ phase = "live"
    /\ key # NULL
    /\ InUse(key)
    /\ IF KeyOf(key) <= FreeKeys THEN TRUE ELSE value = PlainValue(KeyOf(key))
    /\ InOrder(key)
    /\ stored' = Record(key, value)
    /\ LET grow == loadFactorAtLeast(t, LOAD_THRESHOLD_NUM, LOAD_THRESHOLD_DEN)
           r == ht_put(t, key, value)
       IN /\ t' = r.t
          /\ phase' = IF r.ret = Diverges THEN "hung" ELSE "live"
          /\ last' = [op |-> "ht_put", ret |-> r.ret,
                      grew |-> IF grow THEN <<[before |-> t, after |-> resize(t)]>>
                               ELSE <<>>]
          /\ resizes' = IF grow THEN resizes + 1 ELSE resizes
    /\ UNCHANGED <<deleted, arrayVars, queueVars>>

\* Variant: the lookup grows a loaded table first, as ht_put does.
Get_resizing(key) ==
    /\ phase = "live"
    /\ InUse(key)
    /\ InOrder(key)
    /\ t' = IF loadFactorAtLeast(t, LOAD_THRESHOLD_NUM, LOAD_THRESHOLD_DEN)
            THEN resize(t) ELSE t
    /\ last' = Returned("ht_get", ht_get(t, key))
    /\ phase' = IF ht_get(t, key) = Diverges THEN "hung" ELSE "live"
    /\ UNCHANGED <<deleted, stored, resizes, arrayVars, queueVars>>

Get(key) ==
    /\ phase = "live"
    /\ InUse(key)
    /\ InOrder(key)
    /\ last' = Returned("ht_get", ht_get(t, key))
    /\ phase' = IF ht_get(t, key) = Diverges THEN "hung" ELSE "live"
    /\ UNCHANGED <<t, deleted, stored, resizes, arrayVars, queueVars>>

Has(key) ==
    /\ phase = "live"
    /\ InUse(key)
    /\ InOrder(key)
    /\ last' = Returned("ht_has", ht_has(t, key))
    /\ phase' = IF ht_get(t, key) = Diverges THEN "hung" ELSE "live"
    /\ UNCHANGED <<t, deleted, stored, resizes, arrayVars, queueVars>>

KeysCall ==
    /\ phase = "live"
    /\ last' = Returned("ht_keys", ht_keys(t))
    /\ UNCHANGED <<t, phase, deleted, stored, resizes, arrayVars, queueVars>>

ValuesCall ==
    /\ phase = "live"
    /\ last' = Returned("ht_values", ht_values(t))
    /\ UNCHANGED <<t, phase, deleted, stored, resizes, arrayVars, queueVars>>

Dump(contents) ==
    /\ phase = "live"
    /\ last' = Returned("ht_dump", ht_dump(t, contents))
    /\ UNCHANGED <<t, phase, deleted, stored, resizes, arrayVars, queueVars>>

Destroy ==
    /\ phase = "live"
    /\ phase' = "destroyed"
    /\ deleted' = ht_destroy(t)
    /\ last' = Returned("ht_destroy", NULL)
    /\ UNCHANGED <<t, stored, resizes, arrayVars, queueVars>>

Next ==
    \/ \E key \in KeyRefs, value \in Values : Put(key, value)
    \/ \E key \in KeyRefs : Get(key)
    \/ \E key \in KeyRefs : Has(key)
    \/ KeysCall
    \/ ValuesCall
    \/ Destroy

Spec == Init /\ [][Next]_vars

\* ht_put and the calls that only read the table.
NextRead ==
    \/ \E key \in KeyRefs, value \in Values : Put(key, value)
    \/ \E key \in KeyRefs : Get(key)
    \/ \E key \in KeyRefs : Has(key)
    \/ KeysCall
    \/ ValuesCall
    \/ \E contents \in BOOLEAN : Dump(contents)

SpecRead == Init /\ [][NextRead]_vars

\* ------------------------------------------- calls with invalid arguments
\* ht_put with a null table handle or a null key: line 257 prints and exits.
PutInvalid(tIsNull, key, value) ==
    /\ phase = "live"
    /\ IF tIsNull THEN TRUE ELSE key = NULL
    /\ phase' = "exited"
    /\ last' = Returned("ht_put", Exits)
    /\ UNCHANGED <<t, deleted, stored, resizes, arrayVars, queueVars>>

\* ht_destroy(NULL), ht_dump(NULL, _) and ht_values(NULL) print and exit.
DestroyInvalid ==
    /\ phase = "live"
    /\ phase' = "exited"
    /\ last' = Returned("ht_destroy", Exits)
    /\ UNCHANGED <<t, deleted, stored, resizes, arrayVars, queueVars>>

DumpInvalid ==
    /\ phase = "live"
    /\ phase' = "exited"
    /\ last' = Returned("ht_dump", Exits)
    /\ UNCHANGED <<t, deleted, stored, resizes, arrayVars, queueVars>>

ValuesInvalid ==
    /\ phase = "live"
    /\ phase' = "exited"
    /\ last' = Returned("ht_values", Exits)
    /\ UNCHANGED <<t, deleted, stored, resizes, arrayVars, queueVars>>

\* ht_keys(NULL) prints and goes on: the malloc argument reads t->size
\* through the null handle.
KeysInvalid ==
    /\ phase = "live"
    /\ phase' = "crashed"
    /\ last' = Returned("ht_keys", Traps)
    /\ UNCHANGED <<t, deleted, stored, resizes, arrayVars, queueVars>>

\* The calls a caller makes with a null handle or a null key, next to the
\* ht_put calls that fill the table.
NextInvalid ==
    \/ \E key \in KeyRefs, value \in Values : Put(key, value)
    \/ \E tIsNull \in BOOLEAN, key \in {NULL, 1}, value \in {NULL, 1} :
          PutInvalid(tIsNull, key, value)
    \/ DestroyInvalid
    \/ DumpInvalid
    \/ KeysInvalid
    \/ ValuesInvalid

SpecInvalid == Init /\ [][NextInvalid]_vars

\* The calls that change the table.  The other calls leave t and the history
\* variables alone, so this specification reaches the same tables as Spec.
NextPut ==
    \/ \E key \in KeyRefs, value \in Values : Put(key, value)
    \/ Destroy

SpecPut == Init /\ [][NextPut]_vars

\* ========================================================= DYNAMIC ARRAY
\* The element pointers the callers store.
Elements == 1..3

\* What the caller sees of a call on an array or a queue.
Call(op, args, ret) == [op |-> op, args |-> args, ret |-> ret]

\* initArray: size 0 and init_capacity slots of malloc memory.
initArray(init_capacity) ==
    [array    |-> [i \in 0..(init_capacity - 1) |-> Wild],
     size     |-> 0,
     capacity |-> init_capacity]

\* The shift loop of insertArrayElement, from i downwards:
\* for (i = size; i > index; i--) array[i] = array[i-1].
RECURSIVE shiftLoop(_, _, _, _)
shiftLoop(array, size, i, index) ==
    IF i > index
    THEN shiftLoop([array EXCEPT ![i] = array[i - 1]], size, i - 1, index)
    ELSE array

\* realloc to newCapacity slots: the old slots keep their content.
realloc(array, oldCapacity, newCapacity) ==
    [i \in 0..(newCapacity - 1) |-> IF i < oldCapacity THEN array[i] ELSE Wild]

\* insertArrayElement with index <= size: the array struct after the call.
insertArrayElement(a, element, index) ==
    LET a1 == IF a.size = a.capacity
              THEN [a EXCEPT !.capacity = a.capacity * 2,
                             !.array = realloc(a.array, a.capacity, a.capacity * 2)]
              ELSE a
        shifted == shiftLoop(a1.array, a1.size, a1.size, index)
    IN [a1 EXCEPT !.array = [shifted EXCEPT ![a1.size] = element],
                  !.size = a1.size + 1]

\* getArrayElement with index < size.  With index >= size the function ends
\* without a return statement and the caller reads an indeterminate value.
getArrayElement(a, index) == a.array[index]

\* No table and no queue exist; the array has been through initArray with a
\* capacity of at least 1.
InitArray ==
    /\ \E init_capacity \in 1..MaxInitCapacity : arr = initArray(init_capacity)
    /\ phase = "live"
    /\ last = Call("initArray", <<>>, NULL)
    /\ t = None /\ deleted = None /\ stored = None /\ resizes = None
    /\ queue = None /\ heap = None /\ trace = None

Insert(element, index) ==
    /\ phase = "live"
    /\ arr.size < MaxArraySize
    /\ IF index > arr.size
       THEN /\ phase' = "exited"
            /\ last' = Call("insertArrayElement", <<element, index>>, Exits)
            /\ arr' = arr
       ELSE /\ phase' = "live"
            /\ last' = Call("insertArrayElement", <<element, index>>, NULL)
            /\ arr' = insertArrayElement(arr, element, index)
    /\ UNCHANGED <<tableVars, queueVars>>

GetElement(index) ==
    /\ phase = "live"
    /\ \E junk \in {NULL, Wild} :
          last' = Call("getArrayElement", <<index>>,
                       IF index < arr.size THEN getArrayElement(arr, index) ELSE junk)
    /\ UNCHANGED <<phase, arr, tableVars, queueVars>>

NextArray ==
    \/ \E element \in Elements, index \in 0..(MaxArraySize + 1) : Insert(element, index)
    \/ \E index \in 0..MaxArraySize : GetElement(index)

SpecArray == InitArray /\ [][NextArray]_vars

\* ================================================================= QUEUE
\* The data pointers the callers enqueue, and the addresses of Node objects.
Data == 1..2
Addrs == 1..MaxNodes
\* A pointer that is not the address of a Node: reading or writing through
\* it traps.
Unmapped(p) == p \notin Addrs

NoNode == [data |-> NULL, next |-> NULL, state |-> "unused"]

\* initQueue: the parameter queue is overwritten with the result of malloc,
\* so capacity, head and tail of that new object are set (its size is not)
\* and the object of the caller is not written at all.
initQueue(q, capacity, garbage) ==
    [caller |-> q,
     fresh  |-> [head |-> NULL, tail |-> NULL, size |-> garbage, capacity |-> capacity]]

isQueueEmpty(q) == q.size = 0

\* The Node malloc returns: the lowest address not handed out yet.
malloc(h) == CHOOSE a \in Addrs : h[a].state = "unused" /\ \A b \in 1..(a - 1) : h[b].state # "unused"

\* newNode: the heap with the new Node filled in.  The function has no
\* return statement, so the pointer the caller receives is indeterminate:
\* the new Node (the value left in the return register by most builds),
\* null, or a wild pointer.
newNode(h, data) == [h EXCEPT ![malloc(h)] = [data |-> data, next |-> NULL, state |-> "live"]]
newNodeResults(h) == {malloc(h), NULL, Wild}

\* enqueue: queue and heap after the call and how it ended; new is the
\* pointer received from newNode.
enqueue(q, h, data, new) ==
    IF q.size >= q.capacity
    THEN [queue |-> q, heap |-> h, ret |-> Exits]
    ELSE LET h1 == newNode(h, data)
         IN IF q.tail = NULL
            THEN [queue |-> [q EXCEPT !.head = new, !.tail = new, !.size = q.size + 1],
                  heap  |-> h1, ret |-> NULL]
            ELSE IF Unmapped(q.tail)
                 THEN [queue |-> q, heap |-> h1, ret |-> Traps]
                 ELSE [queue |-> [q EXCEPT !.tail = new, !.size = q.size + 1],
                       heap  |-> [h1 EXCEPT ![q.tail].next = new],
                       ret   |-> NULL]

\* dequeue: queue and heap after the call and the data returned.  With a
\* null head the message is printed and the function goes on to read
\* queue->head->next.  Whenever head is a Node, size is at least 1, so
\* size-- does not wrap around.
dequeue(q, h) ==
    IF Unmapped(q.head)
    THEN [queue |-> q, heap |-> h, ret |-> Traps]
    ELSE LET dequeued == q.head
             next == h[dequeued].next
         IN [queue |-> [q EXCEPT !.head = next,
                                 !.tail = IF next = NULL THEN NULL ELSE q.tail,
                                 !.size = q.size - 1],
             heap  |-> [h EXCEPT ![dequeued].state = "freed"],
             ret   |-> h[dequeued].data]

\* The while loop of freeQueue after n rounds: size is never written, so the
\* loop goes on for as long as size is not 0.
RECURSIVE freeLoop(_, _, _, _)
freeLoop(q, h, freed, n) ==
    IF isQueueEmpty(q) THEN [queue |-> q, heap |-> h, freed |-> freed, ret |-> NULL]
    ELSE IF n > MaxNodes THEN [queue |-> q, heap |-> h, freed |-> freed, ret |-> Diverges]
    ELSE IF Unmapped(q.head) THEN [queue |-> q, heap |-> h, freed |-> freed, ret |-> Traps]
    ELSE freeLoop([q EXCEPT !.head = h[q.head].next],
                  [h EXCEPT ![q.head].state = "freed"],
                  Append(freed, h[q.head].data), n + 1)

freeQueue(q, h) == freeLoop(q, h, <<>>, 0)

\* No table and no array exist.  The Queue object of the caller before any
\* call of the library: an object the caller filled in as an empty queue of
\* some capacity, or one whose fields were never written.
CallerQueue ==
    /\ \E h \in {NULL, Wild}, tl \in {NULL, Wild}, s \in Indeterminate, c \in 0..MaxCapacity :
          /\ queue = [head |-> h, tail |-> tl, size |-> s, capacity |-> c]
          /\ trace = [q0 |-> queue, lost |-> <<>>, enq |-> <<>>, deq |-> <<>>, freed |-> <<>>]
    /\ heap = [a \in Addrs |-> NoNode]
    /\ phase = "declared"
    /\ last = Call("none", <<>>, NULL)
    /\ t = None /\ deleted = None /\ stored = None /\ resizes = None
    /\ arr = None

InitQueueCall(capacity) ==
    /\ phase = "declared"
    /\ phase' = "live"
    /\ \E garbage \in Indeterminate :
          LET r == initQueue(queue, capacity, garbage)
          IN /\ queue' = r.caller
             /\ trace' = [trace EXCEPT !.lost = <<r.fresh>>]
    /\ last' = Call("initQueue", <<capacity>>, NULL)
    /\ UNCHANGED <<heap, tableVars, arrayVars>>

Enqueue(data) ==
    /\ phase = "live"
    /\ \E a \in Addrs : heap[a].state = "unused"
    /\ \E new \in newNodeResults(heap) :
          LET r == enqueue(queue, heap, data, new)
          IN /\ queue' = r.queue
             /\ heap' = r.heap
             /\ phase' = CASE r.ret = Exits -> "exited"
                           [] r.ret = Traps -> "crashed"
                           [] OTHER         -> "live"
             /\ trace' = IF r.ret = NULL
                         THEN [trace EXCEPT !.enq = Append(trace.enq, data)]
                         ELSE trace
             /\ last' = Call("enqueue", <<data>>, r.ret)
    /\ UNCHANGED <<tableVars, arrayVars>>

Dequeue ==
    /\ phase = "live"
    /\ LET r == dequeue(queue, heap)
       IN /\ queue' = r.queue
          /\ heap' = r.heap
          /\ phase' = IF r.ret = Traps THEN "crashed" ELSE "live"
          /\ trace' = IF r.ret = Traps
                      THEN trace
                      ELSE [trace EXCEPT !.deq = Append(trace.deq, r.ret)]
          /\ last' = Call("dequeue", <<>>, r.ret)
    /\ UNCHANGED <<tableVars, arrayVars>>

FreeQueue ==
    /\ phase = "live"
    /\ LET r == freeQueue(queue, heap)
       IN /\ queue' = r.queue
          /\ heap' = r.heap
          /\ phase' = CASE r.ret = Traps    -> "crashed"
                        [] r.ret = Diverges -> "hung"
                        [] OTHER            -> "freed"
          /\ trace' = [trace EXCEPT !.freed = r.freed]
          /\ last' = Call("freeQueue", <<>>, r.ret)
    /\ UNCHANGED <<tableVars, arrayVars>>

NextQueue ==
    \/ \E capacity \in 0..MaxCapacity : InitQueueCall(capacity)
    \/ \E data \in Data : Enqueue(data)
    \/ Dequeue
    \/ FreeQueue

SpecQueue == CallerQueue /\ [][NextQueue]_vars

\* ------------------------------------------------------------ vocabulary
Live == phase = "live"
Refs(k) == {r \in KeyRefs : KeyOf(r) = k}
Present == {k \in Keys : stored[k].present}
Occupied(tt) == {i \in 0..(tt.capacity - 1) : tt.table[i].isOccupied}
Entries(tt) == {tt.table[i].pair : i \in Occupied(tt)}
Loaded(tt) == 4 * tt.size >= 3 * tt.capacity
\* The value the latest ht_put stored under a key equal to key, or NULL.
Mapped(key) == IF stored[KeyOf(key)].present THEN stored[KeyOf(key)].value ELSE NULL
Grew == last.op = "ht_put" /\ last.grew # <<>>

\* ----------------------------------------------------------------- C1
\* C1: after ht_put(t, k, v) and any further ht_put calls on keys not equal
\* to k (resizes included), ht_get(t, k') returns v for every reference k'
\* to a key equal to k.
C1_GetReturnsLastPut ==
    Live => \A k \in Present : \A r \in Refs(k) : ht_get(t, r) = stored[k].value

\* Key 1 was given the value 3, twelve more keys followed, the last of them
\* through a resize, and key 1 is still looked up as 3 by its other reference.
C1_Witness ==
    /\ Live /\ Grew /\ last.ret = NULL
    /\ t.size = 13
    /\ stored[1].value = 3
    /\ ht_get(t, 1 + MaxKeys) = 3

\* ----------------------------------------------------------------- C2
\* C2: ht_put(t, k, v2) returns the value k mapped to before the call (NULL
\* when no equal key was resident) and ht_get(t, k) returns v2 afterwards;
\* after put(a,1), put(b,2), put(a,3): get(a) is 3 and size is 2.
C2_Example ==
    /\ stored[1].present /\ stored[1].value = 3
    /\ stored[2].present /\ stored[2].value = 2
    /\ \A k \in Keys : k > 2 => ~stored[k].present

C2_PutReturnsPrevious ==
    Live =>
      /\ \A key \in KeyRefs, value \in Values :
            LET r == ht_put(t, key, value)
            IN /\ r.ret = Mapped(key)
               /\ \A q \in Refs(KeyOf(key)) : ht_get(r.t, q) = value
      /\ C2_Example => t.size = 2 /\ ht_get(t, 1) = 3

\* put(a,1), put(b,2), put(a,3) has just returned 1.
C2_Witness ==
    /\ Live /\ C2_Example
    /\ stored[1].key = 1 /\ stored[2].key = 2
    /\ last.op = "ht_put" /\ last.ret = 1
    /\ t.size = 2

\* ----------------------------------------------------------------- C3
\* C3: size is the number of occupied slots and the number of pairwise
\* non-equal keys put so far, no two occupied slots hold equal keys, and an
\* ht_put adds one to size exactly when no equal key was resident.
C3_SizeCountsKeys ==
    Live =>
      /\ t.size = Cardinality(Occupied(t))
      /\ t.size = Cardinality(Present)
      /\ \A i, j \in Occupied(t) :
            equals(t.table[i].pair.key, t.table[j].pair.key) => i = j
      /\ \A key \in KeyRefs :
            ht_put(t, key, NULL).t.size =
                t.size + (IF stored[KeyOf(key)].present THEN 0 ELSE 1)

\* The thirteenth key went in through a resize.
C3_Witness ==
    /\ Live /\ Grew /\ last.ret = NULL
    /\ t.size = 13 /\ Cardinality(Occupied(t)) = 13

\* ----------------------------------------------------------------- C4
\* C4: a resize keeps the entries, the size and the result of every lookup.
C4_ResizePreserves ==
    Grew =>
      LET b == last.grew[1].before
          a == last.grew[1].after
      IN /\ Entries(a) = Entries(b)
         /\ Cardinality(Occupied(a)) = Cardinality(Occupied(b))
         /\ a.size = b.size
         /\ \A r \in KeyRefs : ht_get(a, r) = ht_get(b, r)

\* A resize that moved an entry to another slot.
C4_Witness ==
    /\ Grew
    /\ \E i \in Occupied(last.grew[1].before) :
          last.grew[1].after.table[i] # last.grew[1].before.table[i]

\* ----------------------------------------------------------------- C5
\* C5: an ht_put doubles capacity and adds one to rehashes exactly when
\* size/capacity >= 0.75 as the call starts (insert and update alike), and
\* otherwise leaves both alone; no other call changes them; capacity never
\* decreases; the first resize of a table starts at size 12 and gives
\* capacity 32.
C5_Step ==
    IF last'.op = "ht_put" /\ Loaded(t)
    THEN t'.capacity = 2 * t.capacity /\ t'.rehashes = t.rehashes + 1
    ELSE t'.capacity = t.capacity /\ t'.rehashes = t.rehashes

C5_ResizeIffLoaded ==
    /\ [][C5_Step /\ t'.capacity >= t.capacity]_vars
    /\ [](resizes = 0 => t.size <= 12 /\ t.capacity = 16)
    /\ [](Grew /\ resizes = 1 =>
            /\ last.grew[1].before.size = 12
            /\ last.grew[1].before.capacity = 16
            /\ t.capacity = 32)

\* An update of a resident key that started at load 0.75 and resized.
C5_Witness ==
    /\ Live /\ Grew /\ last.ret # NULL
    /\ t.size = 12 /\ t.capacity = 32

\* ----------------------------------------------------------------- C6
\* C6: ht_create returns capacity 16, size 0, rehashes 0 and only empty
\* slots, so rehashes is the number of resizes since creation and capacity
\* is 16 * 2^rehashes; after 13 distinct inserts capacity is 32 and
\* rehashes is 1.
C6_FreshTableCounts ==
    /\ last.op = "ht_create" =>
          /\ t.capacity = 16 /\ t.size = 0 /\ t.rehashes = 0
          /\ Occupied(t) = {}
    /\ t.rehashes = resizes
    /\ t.capacity = 16 * 2^(t.rehashes)
    /\ Live /\ t.size = 13 => t.capacity = 32 /\ t.rehashes = 1

\* ----------------------------------------------------------------- C7
\* C7 as stated: after every ht_put, size <= capacity and
\* size / capacity < 0.75.
C7_LoadBelowThreshold ==
    Live => t.size <= t.capacity /\ 4 * t.size < 3 * t.capacity

\* C7 as amended: after every ht_put, size <= capacity and
\* size / capacity <= 0.75 (the load may reach the threshold, and the table
\* then grows as the next ht_put starts).
C7_LoadAtMostThreshold ==
    Live => t.size <= t.capacity /\ 4 * t.size <= 3 * t.capacity

\* The twelfth insert has returned: the load is exactly 0.75.
C7_Witness ==
    /\ Live /\ last.op = "ht_put"
    /\ t.size = 12 /\ t.capacity = 16

\* ----------------------------------------------------------------- C8
\* C8: ht_has(t, k) is true exactly when a key equal to k is resident,
\* whatever value reference is stored with it (a null one included).
C8_HasIffResident ==
    Live => \A r \in KeyRefs : ht_has(t, r) = stored[KeyOf(r)].present

\* ----------------------------------------------------------------- C9
\* The place in increasing slot order of occupied slot i: 1, 2, ...
Rank(tt, i) == Cardinality({j \in Occupied(tt) : j < i}) + 1

\* C9: ht_keys and ht_values each write exactly size elements, those of the
\* occupied slots in increasing slot order, so the i-th key and the i-th
\* value belong to the same entry.
C9_KeysValuesAligned ==
    Live =>
      LET ks == ht_keys(t)
          vs == ht_values(t)
      IN /\ Len(ks) = t.size
         /\ Len(vs) = t.size
         /\ \A i \in Occupied(t) :
               /\ Rank(t, i) <= Len(ks) /\ Rank(t, i) <= Len(vs)
               /\ ks[Rank(t, i)] = t.table[i].pair.key
               /\ vs[Rank(t, i)] = t.table[i].pair.value
         /\ last.op = "ht_keys" => last.ret = ks
         /\ last.op = "ht_values" => last.ret = vs

\* ht_keys has returned the thirteen keys of a table that was resized.
C9_Witness ==
    /\ Live /\ last.op = "ht_keys"
    /\ Len(last.ret) = 13 /\ resizes = 1
    /\ stored[1].key # 1 /\ stored[1].value = NULL

\* ---------------------------------------------------------------- C10
\* C10: with a delete capability, ht_destroy calls delete exactly once for
\* each resident entry, with the entry's key and its current value, and size
\* times in all (so never with a value an ht_put replaced).
C10_DeleteOncePerEntry ==
    phase = "destroyed" /\ t.delete =>
      /\ Len(deleted) = t.size
      /\ \A k \in Present :
            Cardinality({n \in 1..Len(deleted) :
                deleted[n] = [key |-> stored[k].key, value |-> stored[k].value]}) = 1
      /\ \A n \in 1..Len(deleted) :
            /\ stored[KeyOf(deleted[n].key)].present
            /\ deleted[n].value = stored[KeyOf(deleted[n].key)].value

\* A table of thirteen entries, resized once, one of them holding a value
\* that is not the one it is first inserted with, has been destroyed.
C10_Witness ==
    /\ phase = "destroyed" /\ t.delete
    /\ Len(deleted) = 13 /\ resizes = 1
    /\ \E n \in 1..Len(deleted) : deleted[n].value # PlainValue(KeyOf(deleted[n].key))

\* ---------------------------------------------------------------- C11
\* The slot a lookup of key starts at.
Home(tt, key) == hash(tt, key) % tt.capacity
\* The slots of the wrap-around probe path from slot home up to slot i.
Path(tt, home, i) ==
    {(home + n) % tt.capacity : n \in 0..((i + tt.capacity - home) % tt.capacity)}

\* C11: after any sequence of ht_put calls, resizes included, every slot on
\* the wrap-around probe path from the home slot of a resident key to the
\* slot holding it is occupied, so the lookup of the key reaches that slot
\* without meeting an empty one.
C11_ProbeChain ==
    Live =>
      \A i \in Occupied(t) :
         LET key == t.table[i].pair.key
         IN /\ Path(t, Home(t, key), i) \subseteq Occupied(t)
            /\ probe(t, key, Home(t, key), 0) = i

\* After a resize, an entry sits below its home slot: its probe path wraps
\* around the end of the array.
C11_Witness ==
    /\ Live /\ resizes = 1
    /\ \E i \in Occupied(t) :
          /\ i < Home(t, t.table[i].pair.key)
          /\ Cardinality(Path(t, Home(t, t.table[i].pair.key), i)) > 2

\* ---------------------------------------------------------------- C12
\* C12: a call of ht_put, ht_destroy, ht_dump, ht_keys or ht_values with a
\* null table handle, and a call of ht_put with a null key on a valid table,
\* reports the error and ends the process with exit, without reading through
\* the handle, without returning and without changing the table.
C12_Step ==
    last'.ret \in {Exits, Traps} =>
        /\ last'.ret = Exits
        /\ phase' = "exited"
        /\ t' = t

C12_InvalidCallExits == [][C12_Step]_vars

\* ---------------------------------------------------------------- C13
ReadOps == {"ht_get", "ht_has", "ht_keys", "ht_values", "ht_dump"}

\* C13: ht_get, ht_has, ht_keys, ht_values and ht_dump leave the table as it
\* is, also at a load of 0.75 or more: capacity, size, rehashes and every
\* slot are the same after the call as before it, and no resize happens.
C13_Step ==
    last'.op \in ReadOps => t' = t /\ resizes' = resizes

C13_ReadsLeaveTable == [][C13_Step]_vars

\* ht_dump has printed a table that is at load 0.75 and still has its
\* sixteen slots.
C13_Witness ==
    /\ Live /\ last.op = "ht_dump" /\ Len(last.ret) > 4
    /\ Loaded(t) /\ t.size = 12 /\ t.capacity = 16 /\ resizes = 0

\* ---------------------------------------------------------------- C14
\* C14: after insertArrayElement(arr, e, index) with index <= size, the
\* element at position index is e, the elements that were at positions
\* index..size-1 are at positions index+1..size in the same order, those
\* below index are unchanged and size has grown by one, the capacity having
\* doubled first when size = capacity; with index > size the call fails and
\* the array is unchanged.
C14_Step ==
    last'.op = "insertArrayElement" =>
      LET e == last'.args[1]
          index == last'.args[2]
      IN IF index <= arr.size
         THEN /\ phase' = "live"
              /\ arr'.size = arr.size + 1
              /\ arr'.capacity =
                    IF arr.size = arr.capacity THEN 2 * arr.capacity ELSE arr.capacity
              /\ getArrayElement(arr', index) = e
              /\ \A i \in index..(arr.size - 1) :
                    getArrayElement(arr', i + 1) = getArrayElement(arr, i)
              /\ \A i \in 0..(index - 1) :
                    getArrayElement(arr', i) = getArrayElement(arr, i)
         ELSE /\ phase' = "exited"
              /\ arr' = arr

C14_InsertAtIndex == [][C14_Step]_vars

\* ---------------------------------------------------------------- C15
EmptyQueue(capacity) == [head |-> NULL, tail |-> NULL, size |-> 0, capacity |-> capacity]

\* C15: after initQueue(queue, capacity) has returned, the queue object the
\* caller passed in has the given capacity, size 0 and null head and tail.
C15_InitQueueGivesEmpty ==
    last.op = "initQueue" => queue = EmptyQueue(last.args[1])

\* ---------------------------------------------------------------- C16
\* The queue was an empty queue when it was first handed to the library.
StartedEmpty == trace.q0 = EmptyQueue(trace.q0.capacity)

\* The Nodes linked from pointer p on, in order.
RECURSIVE Chain(_, _, _)
Chain(h, p, n) ==
    IF n >= MaxNodes THEN <<>>
    ELSE IF Unmapped(p) THEN <<>>
         ELSE <<p>> \o Chain(h, h[p].next, n + 1)

\* C16: starting from an empty queue of capacity c, after any sequence of
\* enqueue and dequeue calls size is the number of Nodes linked from head to
\* tail and 0 <= size <= c; enqueue on a queue holding c elements is refused
\* and leaves the queue unchanged; dequeue on an empty queue reports that
\* there is nothing to dequeue, returns and leaves the queue unchanged.
C16_Step ==
    /\ last'.op = "enqueue" /\ StartedEmpty /\ queue.size = queue.capacity =>
          queue' = queue /\ last'.ret = Exits
    /\ last'.op = "dequeue" /\ StartedEmpty /\ queue = EmptyQueue(queue.capacity) =>
          queue' = queue /\ phase' = "live"

C16_SizeCountsNodes ==
    /\ [](StartedEmpty /\ phase = "live" =>
            /\ queue.size = Len(Chain(heap, queue.head, 0))
            /\ 0 <= queue.size /\ queue.size <= queue.capacity)
    /\ [][C16_Step]_vars

\* ---------------------------------------------------------------- C17
\* The keys whose mapping a step changes: the key of the ht_put call, unless
\* the call stores the value the key already has.
Changed == {k \in Keys : stored'[k] # stored[k]}
\* C17: ht_put(t, k, v) changes the mapping of k only: ht_get returns the
\* same result as before for every key not equal to k, also when the call
\* resizes, and the entry of a key that was resident keeps the key reference
\* it was first stored with, only its value reference being replaced.
C17_Step ==
    last'.op = "ht_put" =>
       LET ks == Changed
           before == Entries(t)
           after == Entries(t')
           kept == {e \in after : KeyOf(e.key) \notin ks}
       IN /\ Cardinality(ks) <= 1
          /\ \A q \in Keys \ ks : ht_get(t', q) = ht_get(t, q)
          /\ kept = {e \in before : KeyOf(e.key) \notin ks}
          /\ \A e \in before :
                KeyOf(e.key) \in ks =>
                   /\ stored[KeyOf(e.key)].key = e.key
                   /\ [key |-> e.key, value |-> stored'[KeyOf(e.key)].value] \in after
          /\ Cardinality(after \ kept) = Cardinality(ks)

C17_PutChangesOneMapping == [][C17_Step]_vars

\* Key 1, first stored under its second reference with value 3, has just
\* been given a null value by a call that resized the table.
C17_Witness ==
    /\ Live /\ Grew /\ last.ret = 3
    /\ stored[1].key = 1 + MaxKeys /\ stored[1].value = NULL
    /\ [key |-> 1 + MaxKeys, value |-> NULL] \in Entries(t)

\* ---------------------------------------------------------------- C18
\* C18: starting from an empty queue, every dequeue on a non-empty queue
\* returns, and the k-th dequeue returns the data passed to the k-th
\* successful enqueue (first in, first out).
C18_Step ==
    last'.op = "dequeue" /\ StartedEmpty /\ ~isQueueEmpty(queue) =>
       /\ phase' = "live"
       /\ Len(trace'.deq) = Len(trace.deq) + 1
       /\ Len(trace'.deq) <= Len(trace'.enq)
       /\ last'.ret = trace'.enq[Len(trace'.deq)]

C18_FirstInFirstOut == [][C18_Step]_vars

\* ---------------------------------------------------------------- C19
\* A queue whose size is the number of Nodes linked from head, the last of
\* them being tail: the states enqueue and dequeue reach from an empty queue
\* when every enqueue received its new Node.
WellLinked(q, h) ==
    LET nodes == Chain(h, q.head, 0)
    IN /\ q.size = Len(nodes)
       /\ IF nodes = <<>>
          THEN q.head = NULL /\ q.tail = NULL
          ELSE q.tail = nodes[Len(nodes)] /\ h[q.tail].next = NULL

\* C19: freeQueue terminates on every reachable queue, one holding one or
\* more elements included: it releases each remaining Node exactly once and
\* then the queue, and never reads through a null head.  (Stated here for
\* the well-linked queues, which are among the reachable ones.)
C19_Step ==
    last'.op = "freeQueue" /\ WellLinked(queue, heap) =>
       /\ last'.ret = NULL
       /\ phase' = "freed"
       /\ Len(trace'.freed) = queue.size
       /\ \A a \in Addrs :
             heap'[a].state = "freed" <=>
                \/ heap[a].state = "freed"
                \/ \E n \in 1..queue.size : Chain(heap, queue.head, 0)[n] = a

C19_FreeQueueReleasesAll == [][C19_Step]_vars

\* ---------------------------------------------------------------- C20
\* A table with an empty slot, in which the probe loop ends for every key.
ProbesEnd(tt) ==
    /\ tt.size < tt.capacity
    /\ Cardinality(Occupied(tt)) < tt.capacity
    /\ \A r \in KeyRefs : probe(tt, r, Home(tt, r), 0) # Diverges

\* C20: in every reachable table at least one slot is empty (size <
\* capacity), in the table ht_get and ht_put probe and in the new array
\* resize fills, so the probe loops of ht_get, ht_put and resize end for
\* every key, a key that is not in the table included.
C20_ProbesTerminate ==
    /\ phase # "hung"
    /\ ProbesEnd(t)
    /\ Loaded(t) =>
          /\ ProbesEnd(resize(t))
          /\ Cardinality(Occupied(resize(t))) = Cardinality(Occupied(t))
    /\ Grew =>
          Cardinality(Occupied(last.grew[1].after)) =
              Cardinality(Occupied(last.grew[1].before))

\* At load 0.75 with all twelve keys in one cluster, the lookup of a key
\* that is not in the table walks the twelve occupied slots and ends on the
\* empty slot behind them.
C20_Witness ==
    /\ Live /\ t.size = 12 /\ t.capacity = 16
    /\ ~stored[MaxKeys].present
    /\ ht_get(t, MaxKeys) = NULL
    /\ Cardinality(Path(t, Home(t, MaxKeys), probe(t, MaxKeys, Home(t, MaxKeys), 0))) = 13

====
